---- MODULE Spec2Model ----
(***************************************************************************)
(* Model of newdev/build_minify.py: the two regex-based text minifiers     *)
(* (minify_js, minify_css) and the file driver (write_minified, main).     *)
(*                                                                         *)
(* A text is a sequence of one-character strings.  Python's whitespace     *)
(* class (\s, str.strip, str.splitlines) is modelled on the characters the *)
(* input alphabets below draw from: space, tab, LF and CR.                 *)
(***************************************************************************)
EXTENDS Integers, Sequences, FiniteSets, TLC

VARIABLES
    kind,     \* which minifier the text run exercises: "css", "js", or "none"
    txt,      \* the text handed to the minifier
    out,      \* minifier(txt)
    out2,     \* minifier(minifier(txt))
    phase,    \* "input" -> "once" -> "twice"
    pc,       \* position of main()
    idx,      \* index of the file main() is working on (1 = styles.css)
    present,  \* the source files that exist on disk
    srcText,  \* content of every source file
    dest,     \* content of every destination file (Absent when not on disk)
    text,     \* local variable `text` of write_minified
    log,      \* lines printed so far
    events    \* the file operations main() has performed so far, in order

textVars   == <<kind, txt, out, out2, phase>>
driverVars == <<pc, idx, present, srcText, dest, text, log, events>>
vars       == <<kind, txt, out, out2, phase,
                pc, idx, present, srcText, dest, text, log, events>>

----------------------------------------------------------------------------
(* Characters *)

LF == "\n"
CR == "\r"
TAB == "\t"
SP == " "
BSL == "\\"
DQ == "\""
SQ == "'"
\* the template-literal delimiter (backtick), which a TLA+ string cannot hold
BQ == "backtick"

\* the characters matched by \s and removed by str.strip()
Whitespace == {SP, TAB, LF, CR}

IsSpace(c) == c \in Whitespace

----------------------------------------------------------------------------
(* re.sub(r"/\*[^*]*\*+(?:[^/*][^*]*\*+)*/", "", s) *)

\* [^*]* : first index at or after j that holds a star, or Len(s)+1
RECURSIVE SkipNonStar(_, _)
SkipNonStar(s, j) ==
    IF j > Len(s) \/ s[j] = "*" THEN j ELSE SkipNonStar(s, j + 1)

\* \*+ : index after the run of stars starting at j, or 0 when s[j] is no star
RECURSIVE SkipStars(_, _)
SkipStars(s, j) ==
    IF j > Len(s) \/ s[j] # "*" THEN 0
    ELSE IF j + 1 <= Len(s) /\ s[j + 1] = "*" THEN SkipStars(s, j + 1)
    ELSE j + 1

\* variant: the pattern /\*[^*]*\*+/ without the group, which gives up on a
\* star inside the comment that no slash follows
CommentTailNaive(s, j) ==
    IF j <= Len(s) /\ s[j] = "/" THEN j ELSE 0

\* (?:[^/*][^*]*\*+)*/ : index of the closing slash, or 0 when there is none
RECURSIVE CommentTail(_, _)
CommentTail(s, j) ==
    IF j > Len(s) THEN 0
    ELSE IF s[j] = "/" THEN j
    ELSE IF s[j] = "*" THEN 0
    ELSE LET st == SkipStars(s, SkipNonStar(s, j + 1))
         IN  IF st = 0 THEN 0 ELSE CommentTail(s, st)

\* the whole pattern tried at position i: index of the last matched
\* character, or 0 when the pattern does not match at i
MatchBlockComment(s, i) ==
    IF i + 1 <= Len(s) /\ s[i] = "/" /\ s[i + 1] = "*"
    THEN LET st == SkipStars(s, SkipNonStar(s, i + 2))
         IN  IF st = 0 THEN 0 ELSE CommentTail(s, st)
    ELSE 0

RECURSIVE RemoveFrom(_, _, _)
RemoveFrom(s, i, acc) ==
    IF i > Len(s) THEN acc
    ELSE LET m == MatchBlockComment(s, i)
         IN  IF m > 0 THEN RemoveFrom(s, m + 1, acc)
             ELSE RemoveFrom(s, i + 1, Append(acc, s[i]))

RemoveBlockComments(s) == RemoveFrom(s, 1, <<>>)

----------------------------------------------------------------------------
(* re.sub(r"\s+", " ", s) *)

\* \s* : first index at or after j that holds no whitespace, or Len(s)+1
RECURSIVE SkipSpace(_, _)
SkipSpace(s, j) ==
    IF j > Len(s) \/ ~IsSpace(s[j]) THEN j ELSE SkipSpace(s, j + 1)

RECURSIVE CollapseFrom(_, _, _)
CollapseFrom(s, i, acc) ==
    IF i > Len(s) THEN acc
    ELSE IF IsSpace(s[i]) THEN CollapseFrom(s, SkipSpace(s, i), Append(acc, SP))
    ELSE CollapseFrom(s, i + 1, Append(acc, s[i]))

CollapseWhitespace(s) == CollapseFrom(s, 1, <<>>)

(* re.sub(r"\s*p\s*", "p", s) for a punctuation character p *)

\* variant: the pattern \s*p, which leaves the whitespace after p
RECURSIVE TrimBeforeFrom(_, _, _, _)
TrimBeforeFrom(s, p, i, acc) ==
    IF i > Len(s) THEN acc
    ELSE LET j == SkipSpace(s, i)
         IN  IF j <= Len(s) /\ s[j] = p
             THEN TrimBeforeFrom(s, p, j + 1, Append(acc, p))
             ELSE TrimBeforeFrom(s, p, i + 1, Append(acc, s[i]))

TrimBefore(s, p) == TrimBeforeFrom(s, p, 1, <<>>)

RECURSIVE TrimFrom(_, _, _, _)
TrimFrom(s, p, i, acc) ==
    IF i > Len(s) THEN acc
    ELSE LET j == SkipSpace(s, i)
         IN  IF j <= Len(s) /\ s[j] = p
             THEN TrimFrom(s, p, SkipSpace(s, j + 1), Append(acc, p))
             ELSE TrimFrom(s, p, i + 1, Append(acc, s[i]))

TrimAround(s, p) == TrimFrom(s, p, 1, <<>>)

(* re.sub(r";}", "}", s) *)

RECURSIVE DropSemiFrom(_, _, _)
DropSemiFrom(s, i, acc) ==
    IF i > Len(s) THEN acc
    ELSE IF i + 1 <= Len(s) /\ s[i] = ";" /\ s[i + 1] = "}"
         THEN DropSemiFrom(s, i + 2, Append(acc, "}"))
         ELSE DropSemiFrom(s, i + 1, Append(acc, s[i]))

DropSemiBeforeBrace(s) == DropSemiFrom(s, 1, <<>>)

(* str.strip() *)

RECURSIVE StripRight(_)
StripRight(s) ==
    IF s # <<>> /\ IsSpace(s[Len(s)]) THEN StripRight(SubSeq(s, 1, Len(s) - 1))
    ELSE s

Strip(s) == StripRight(SubSeq(s, SkipSpace(s, 1), Len(s)))

----------------------------------------------------------------------------
(* The line-comment pass of minify_js *)

\* str.splitlines(): LF, CR and CR LF end a line; a text that ends in a line
\* break has no empty last line
RECURSIVE SplitFrom(_, _, _, _)
SplitFrom(s, i, cur, acc) ==
    IF i > Len(s) THEN (IF cur = <<>> THEN acc ELSE Append(acc, cur))
    ELSE IF s[i] = LF THEN SplitFrom(s, i + 1, <<>>, Append(acc, cur))
    ELSE IF s[i] = CR
         THEN SplitFrom(s, IF i + 1 <= Len(s) /\ s[i + 1] = LF THEN i + 2 ELSE i + 1,
                        <<>>, Append(acc, cur))
    ELSE SplitFrom(s, i + 1, Append(cur, s[i]), acc)

SplitLines(s) == SplitFrom(s, 1, <<>>, <<>>)

Quotes == {DQ, SQ, BQ}

\* variant: a scan that cuts the line at any slash-slash, in a string or not
RECURSIVE ScanFromAnyComment(_, _, _, _, _)
ScanFromAnyComment(line, i, quote_open, quote_char, o) ==
    IF i > Len(line) \/ (i + 1 <= Len(line) /\ line[i] = "/" /\ line[i + 1] = "/")
    THEN [kept |-> o, quote_open |-> FALSE, quote_char |-> ""]
    ELSE ScanFromAnyComment(line, i + 1, quote_open, quote_char,
                            Append(o, line[i]))

\* the while loop over one line, from scan position i (1-based) in the given
\* quote state; yields the characters kept and the quote state at loop exit
RECURSIVE ScanFrom(_, _, _, _, _)
ScanFrom(line, i, quote_open, quote_char, o) ==
    IF i > Len(line)
    THEN [kept |-> o, quote_open |-> quote_open, quote_char |-> quote_char]
    ELSE IF ~quote_open /\ i + 1 <= Len(line) /\ line[i] = "/" /\ line[i + 1] = "/"
    THEN [kept |-> o, quote_open |-> quote_open, quote_char |-> quote_char]
    ELSE LET c   == line[i]
             o1  == Append(o, c)
             qo  == IF c \in Quotes
                    THEN (IF ~quote_open THEN TRUE
                          ELSE IF quote_char = c THEN FALSE ELSE quote_open)
                    ELSE quote_open
             qc  == IF c \in Quotes
                    THEN (IF ~quote_open THEN c
                          ELSE IF quote_char = c THEN "" ELSE quote_char)
                    ELSE quote_char
             esc == c = BSL /\ qo /\ i + 1 <= Len(line)
         IN  IF esc
             THEN ScanFrom(line, i + 2, qo, qc, Append(o1, line[i + 1]))
             ELSE ScanFrom(line, i + 1, qo, qc, o1)

\* variant: quote_open and quote_char set once before the for loop, so that
\* a line starts in the quote state the line before it ended in
RECURSIVE ScanLinesKeeping(_, _, _, _, _)
ScanLinesKeeping(ls, k, lines, quote_open, quote_char) ==
    IF k > Len(ls) THEN lines
    ELSE LET r == ScanFrom(ls[k], 1, quote_open, quote_char, <<>>)
         IN  ScanLinesKeeping(ls, k + 1, Append(lines, r.kept),
                              r.quote_open, r.quote_char)

ScanLinesCarry(ls, k, lines) == ScanLinesKeeping(ls, k, lines, FALSE, "")

\* the for loop over the lines: every line is scanned anew from the closed
\* quote state (quote_open = False, quote_char = '')
RECURSIVE ScanLinesFrom(_, _, _)
ScanLinesFrom(ls, k, lines) ==
    IF k > Len(ls) THEN lines
    ELSE ScanLinesFrom(ls, k + 1,
                       Append(lines, ScanFrom(ls[k], 1, FALSE, "", <<>>).kept))

ScanLines(ls) == ScanLinesFrom(ls, 1, <<>>)

\* variant: ''.join(lines)
RECURSIVE JoinLinesNoSeparator(_)
JoinLinesNoSeparator(ls) ==
    IF ls = <<>> THEN <<>> ELSE ls[1] \o JoinLinesNoSeparator(Tail(ls))

\* '\n'.join(lines)
RECURSIVE JoinLines(_)
JoinLines(ls) ==
    IF ls = <<>> THEN <<>>
    ELSE IF Len(ls) = 1 THEN ls[1]
    ELSE ls[1] \o <<LF>> \o JoinLines(Tail(ls))

StripLineComments(s) == JoinLines(ScanLines(SplitLines(s)))

----------------------------------------------------------------------------
(* The two minifiers *)

JsPunctuation == <<";", "{", "}", "(", ")", ",">>
CssPunctuation == <<"{", "}", ";", ":">>

\* the successive re.sub(r"\s*p\s*", "p", ...) calls, in the order of ps
RECURSIVE TrimAll(_, _)
TrimAll(s, ps) ==
    IF ps = <<>> THEN s ELSE TrimAll(TrimAround(s, Head(ps)), Tail(ps))

\* the whitespace passes of minify_js and its final strip()
JsWhitespacePass(s) == Strip(TrimAll(CollapseWhitespace(s), JsPunctuation))

minify_js(js) == JsWhitespacePass(StripLineComments(RemoveBlockComments(js)))

minify_css(css) ==
    Strip(DropSemiBeforeBrace(
            TrimAll(CollapseWhitespace(RemoveBlockComments(css)), CssPunctuation)))

----------------------------------------------------------------------------
(* Applying a minifier to a text, and again to its own output *)

\* what dest holds for a file that is not on disk (no text: a text is made of
\* single characters)
Absent == <<"no file">>

\* all texts of at most n characters over the alphabet A
Texts(A, n) == UNION {[1..k -> A] : k \in 0..n}

DriverIdle ==
    /\ pc = "idle" /\ idx = 0 /\ present = {} /\ srcText = <<>>
    /\ dest = <<>> /\ text = <<>> /\ log = <<>> /\ events = <<>>

InitText(kinds, A, n) ==
    /\ kind \in kinds
    /\ txt \in Texts(A, n)
    /\ out = <<>> /\ out2 = <<>> /\ phase = "input"
    /\ DriverIdle

MinifyCss ==
    /\ kind = "css" /\ phase = "input"
    /\ out' = minify_css(txt)
    /\ phase' = "once"
    /\ UNCHANGED <<kind, txt, out2>> /\ UNCHANGED driverVars

ReminifyCss ==
    /\ kind = "css" /\ phase = "once"
    /\ out2' = minify_css(out)
    /\ phase' = "twice"
    /\ UNCHANGED <<kind, txt, out>> /\ UNCHANGED driverVars

MinifyJs ==
    /\ kind = "js" /\ phase = "input"
    /\ out' = minify_js(txt)
    /\ phase' = "once"
    /\ UNCHANGED <<kind, txt, out2>> /\ UNCHANGED driverVars

ReminifyJs ==
    /\ kind = "js" /\ phase = "once"
    /\ out2' = minify_js(out)
    /\ phase' = "twice"
    /\ UNCHANGED <<kind, txt, out>> /\ UNCHANGED driverVars

MaxCssLen == 4
CssAlphabet == {SP, LF, "a", "{", "}", ";", ":", "/", "*"}

InitCss == InitText({"css"}, CssAlphabet, MaxCssLen)
NextCss == MinifyCss \/ ReminifyCss
SpecCss == InitCss /\ [][NextCss]_vars

MaxJsLen == 5
JsAlphabet == {SP, LF, "a", ";", "/", "*", DQ, SQ, BSL}

InitJs == InitText({"js"}, JsAlphabet, MaxJsLen)
NextJs == MinifyJs \/ ReminifyJs
SpecJs == InitJs /\ [][NextJs]_vars

MaxLineLen == 6
LineAlphabet == {SP, "a", ";", "/", "*", DQ, BSL}

\* single-line JavaScript texts
InitJsLine == InitText({"js"}, LineAlphabet, MaxLineLen)
NextJsLine == MinifyJs
SpecJsLine == InitJsLine /\ [][NextJsLine]_vars

MaxWsLen == 4
WsAlphabet == {SP, TAB, LF, "a", "/", "{", "}", "(", ")", ";", ",", ":"}

InitWs == InitText({"css", "js"}, WsAlphabet, MaxWsLen)
NextWs == MinifyCss \/ MinifyJs
SpecWs == InitWs /\ [][NextWs]_vars

MaxCommentLen == 7
CommentAlphabet == {LF, "x", "/", "*", DQ}

InitComment == InitText({"css", "js"}, CommentAlphabet, MaxCommentLen)
NextComment == MinifyCss \/ MinifyJs
SpecComment == InitComment /\ [][NextComment]_vars

----------------------------------------------------------------------------------------------------------------------------------------
(* The driver: write_minified and main *)

\* styles.css, then the four entries of js_files, in the order main() takes them
NumFiles == 5
Files == 1..NumFiles

SourceName == <<"styles.css", "app.js", "security.js", "calculations.js",
                "pdf-worker.js">>
DestName == <<"styles.min.css", "app.min.js", "security.min.js",
              "calculations.min.js", "pdf-worker.min.js">>

\* variant: minify_js passed for the style sheet too
MinifierJsOnly(i, t) == minify_js(t)

\* the minifier main() passes for file i, applied to t
Minifier(i, t) == IF i = 1 THEN minify_css(t) ELSE minify_js(t)

\* contents a source file may have; the two minifiers differ on both
Samples == { <<"a", SP, "{", "b", ":", SP, "c", ";", "}">>,
             <<"a", ";", SP, "/", "/", "b">> }

\* content of a destination file left by an earlier run
Stale == <<"o", "l", "d">>

Event(op, i) == [op |-> op, file |-> i]

\* variant: a loop that steps over every other file
AdvanceByTwo(i) == IF i + 2 > NumFiles THEN NumFiles ELSE i + 2

\* the file after file i, or the end of main()
Advance(i) == IF i = NumFiles THEN NumFiles ELSE i + 1
After(i) == IF i = NumFiles THEN "done" ELSE "check"

TextIdle ==
    kind = "none" /\ txt = <<>> /\ out = <<>> /\ out2 = <<>> /\ phase = "idle"

Init ==
    /\ pc = "check" /\ idx = 1
    /\ present \in SUBSET Files
    /\ srcText \in [Files -> Samples]
    /\ dest \in [Files -> {Absent, Stale}]
    /\ text = <<>> /\ log = <<>> /\ events = <<>>
    /\ TextIdle

\* src.exists() holds: main() calls write_minified
Exists ==
    /\ pc = "check" /\ idx \in present
    /\ pc' = "read"
    /\ events' = Append(events, Event("check", idx))
    /\ UNCHANGED <<idx, present, srcText, dest, text, log>> /\ UNCHANGED textVars

\* src.exists() fails: the file is passed over
Skip ==
    /\ pc = "check" /\ idx \notin present
    /\ pc' = After(idx) /\ idx' = Advance(idx)
    /\ events' = Append(events, Event("check", idx))
    /\ UNCHANGED <<present, srcText, dest, text, log>> /\ UNCHANGED textVars

\* text = src.read_text(encoding='utf-8')
Read ==
    /\ pc = "read"
    /\ text' = srcText[idx]
    /\ pc' = "write"
    /\ events' = Append(events, Event("read", idx))
    /\ UNCHANGED <<idx, present, srcText, dest, log>> /\ UNCHANGED textVars

\* variant: the error of read_text caught in main(), which goes on with the
\* next file
ReadFailSwallowed ==
    /\ pc = "read"
    /\ pc' = (IF idx = NumFiles THEN "done" ELSE "check")
    /\ idx' = (IF idx = NumFiles THEN NumFiles ELSE idx + 1)
    /\ events' = Append(events, [op |-> "readfail", file |-> idx])
    /\ UNCHANGED <<present, srcText, dest, text, log>> /\ UNCHANGED textVars

\* read_text raises (unreadable file, decoding error): nothing catches it
ReadFail ==
    /\ pc = "read"
    /\ pc' = "failed"
    /\ events' = Append(events, Event("readfail", idx))
    /\ UNCHANGED <<idx, present, srcText, dest, text, log>> /\ UNCHANGED textVars

\* dest.write_text(minifier(text), encoding='utf-8')
Write ==
    /\ pc = "write"
    /\ dest' = [dest EXCEPT ![idx] = Minifier(idx, text)]
    /\ pc' = "print"
    /\ events' = Append(events, Event("write", idx))
    /\ UNCHANGED <<idx, present, srcText, text, log>> /\ UNCHANGED textVars

\* write_text raises: the destination is as it was (open failed) or holds a
\* proper prefix of the output (the write is not atomic); nothing catches it
WriteFail ==
    /\ pc = "write"
    /\ \E n \in 0..Len(Minifier(idx, text)) :
          dest' = [dest EXCEPT ![idx] =
                      IF n = Len(Minifier(idx, text)) THEN dest[idx]
                      ELSE SubSeq(Minifier(idx, text), 1, n)]
    /\ pc' = "failed"
    /\ events' = Append(events, Event("writefail", idx))
    /\ UNCHANGED <<idx, present, srcText, text, log>> /\ UNCHANGED textVars

\* print(f"Minified {src.name} -> {dest.name}"), then on to the next file
LogLine ==
    /\ pc = "print"
    /\ log' = Append(log, <<"Minified", SourceName[idx], "->", DestName[idx]>>)
    /\ pc' = After(idx) /\ idx' = Advance(idx)
    /\ events' = Append(events, Event("log", idx))
    /\ UNCHANGED <<present, srcText, dest, text>> /\ UNCHANGED textVars

Next == Exists \/ Skip \/ Read \/ ReadFail \/ Write \/ WriteFail \/ LogLine

Spec == Init /\ [][Next]_vars

----------------
(* Notions the properties are stated in *)

SlashStar  == <<"/", "*">>
StarSlash  == <<"*", "/">>
SlashSlash == <<"/", "/">>

\* the word w stands in s at position i
At(s, i, w) ==
    i >= 1 /\ i + Len(w) - 1 <= Len(s) /\ SubSeq(s, i, i + Len(w) - 1) = w

Contains(s, w) == \E i \in 1..(Len(s) + 1) : At(s, i, w)

NotSpace(c) == ~IsSpace(c)
NonSpace(s) == SelectSeq(s, NotSpace)

RECURSIVE IsSubsequence(_, _)
IsSubsequence(a, b) ==
    IF a = <<>> THEN TRUE
    ELSE IF b = <<>> THEN FALSE
    ELSE IF Head(a) = Head(b) THEN IsSubsequence(Tail(a), Tail(b))
    ELSE IsSubsequence(a, Tail(b))

\* a slash-star followed, after itself, by a star-slash
ContainsBlockComment(s) ==
    \E i \in 1..Len(s), j \in 1..Len(s) :
        j >= i + 2 /\ At(s, i, SlashStar) /\ At(s, j, StarSlash)

\* position of the first star-slash at or after position from, or 0
FirstStarSlash(s, from) ==
    IF \E j \in from..Len(s) : At(s, j, StarSlash)
    THEN CHOOSE j \in from..Len(s) :
             At(s, j, StarSlash) /\ \A k \in from..(j - 1) : ~At(s, k, StarSlash)
    ELSE 0

\* the characters of s outside its block comments, read left to right: a
\* comment runs from a slash-star to the first star-slash that follows it
RECURSIVE OutsideFrom(_, _, _)
OutsideFrom(s, i, acc) ==
    IF i > Len(s) THEN acc
    ELSE IF At(s, i, SlashStar) /\ FirstStarSlash(s, i + 2) > 0
    THEN OutsideFrom(s, FirstStarSlash(s, i + 2) + 2, acc)
    ELSE OutsideFrom(s, i + 1, Append(acc, s[i]))

OutsideBlockComments(s) == OutsideFrom(s, 1, <<>>)

\* number of consecutive backslashes ending at position j, none before lo
RECURSIVE BackslashRun(_, _, _)
BackslashRun(s, j, lo) ==
    IF j < lo \/ s[j] # BSL THEN 0 ELSE 1 + BackslashRun(s, j - 1, lo)

\* the quote that closes the string literal opened at i: the first later
\* occurrence of the same delimiter that no backslash escapes; 0 if none
ClosesAt(line, i, j) ==
    line[j] = line[i] /\ BackslashRun(line, j - 1, i + 1) % 2 = 0

ClosingQuote(line, i) ==
    IF \E j \in (i + 1)..Len(line) : ClosesAt(line, i, j)
    THEN CHOOSE j \in (i + 1)..Len(line) :
             ClosesAt(line, i, j) /\ \A k \in (i + 1)..(j - 1) : ~ClosesAt(line, i, k)
    ELSE 0

\* the string literals of a line, as pairs <<opening, closing>> of positions
RECURSIVE LiteralsFrom(_, _)
LiteralsFrom(line, i) ==
    IF i > Len(line) \/ At(line, i, SlashSlash) THEN {}
    ELSE IF line[i] \in Quotes
    THEN LET j == ClosingQuote(line, i)
         IN  IF j = 0 THEN {} ELSE {<<i, j>>} \cup LiteralsFrom(line, j + 1)
    ELSE LiteralsFrom(line, i + 1)

StringLiterals(line) == LiteralsFrom(line, 1)

\* position of the first slash-slash of a line outside any string, or 0
RECURSIVE CommentFrom(_, _)
CommentFrom(line, i) ==
    IF i > Len(line) THEN 0
    ELSE IF At(line, i, SlashSlash) THEN i
    ELSE IF line[i] \in Quotes
    THEN LET j == ClosingQuote(line, i)
         IN  IF j = 0 THEN 0 ELSE CommentFrom(line, j + 1)
    ELSE CommentFrom(line, i + 1)

CommentStart(line) == CommentFrom(line, 1)

\* the line ends inside a string literal that it does not close
RECURSIVE OpenFrom(_, _)
OpenFrom(line, i) ==
    IF i > Len(line) \/ At(line, i, SlashSlash) THEN FALSE
    ELSE IF line[i] \in Quotes
    THEN LET j == ClosingQuote(line, i)
         IN  IF j = 0 THEN TRUE ELSE OpenFrom(line, j + 1)
    ELSE OpenFrom(line, i + 1)

\* some line of s ends inside a string literal
LeavesQuoteOpen(s) ==
    \E k \in 1..Len(SplitLines(s)) : OpenFrom(SplitLines(s)[k], 1)

----------------------------------------------------------------------------
(* Properties of minify_css *)

\* C1: minify_css is idempotent on every text without a block comment:
\* minifying the output again yields the output.
C1_CssIdempotent ==
    (kind = "css" /\ phase = "twice" /\ ~ContainsBlockComment(txt)) => out2 = out

\* C4: the output of minify_css never holds a semicolon immediately before a
\* closing brace.
C4_NoSemicolonBeforeBrace ==
    (kind = "css" /\ phase # "input") => ~Contains(out, <<";", "}">>)

----------------------------------------------------------------------------
(* Properties of minify_js *)

TrailingCommentDropped ==
    CommentStart(txt) > 0 => out = minify_js(SubSeq(txt, 1, CommentStart(txt) - 1))

EarlyComments(s) ==
    {p \in 1..Len(s) :
        /\ At(s, p, SlashSlash)
        /\ \E b \in 0..(p - 1) :
              /\ b = 0 \/ s[b] \in {LF, CR}
              /\ \A q \in (b + 1)..(p - 1) :
                    s[q] \notin Quotes \cup {LF, CR} /\ ~At(s, q, SlashSlash)}

\* first line break of s at or after position p, or Len(s) + 1
RECURSIVE LineEnd(_, _)
LineEnd(s, p) ==
    IF p > Len(s) \/ s[p] \in {LF, CR} THEN p ELSE LineEnd(s, p + 1)

\* s without the rest of the line from position p on
CutLine(s, p) == SubSeq(s, 1, p - 1) \o SubSeq(s, LineEnd(s, p), Len(s))

\* C10: the line-comment scanner starts every line outside any string: in
\* the text it scans (the input less its block comments), a slash-slash that
\* stands on a line before any quote character of that line starts a comment
\* and the rest of that line is dropped, also when an earlier line left a
\* quote open.
C10_QuoteStatePerLine ==
    (kind = "js" /\ phase # "input") =>
        \A p \in EarlyComments(RemoveBlockComments(txt)) :
            out = JsWhitespacePass(
                      StripLineComments(CutLine(RemoveBlockComments(txt), p)))

\* a first line that leaves a string open, then a line that starts a comment
\* before any quote, whose text is dropped
C10_Witness ==
    /\ kind = "js" /\ phase = "once"
    /\ txt = <<DQ, LF, "/", "/", "a">>
    /\ out = <<DQ>>

----------------------------------------------------------------------------
(* Properties of both minifiers *)

Punctuation == IF kind = "js" THEN {";", "{", "}", "(", ")", ","}
               ELSE {"{", "}", ":", ";"}

C6_CommentsRemoved ==
    phase # "input" =>
        IsSubsequence(NonSpace(out), NonSpace(OutsideBlockComments(txt)))

\* a comment of two lines that holds a quote, after a kept character
C6_Witness ==
    /\ phase = "once"
    /\ txt = <<"x", "/", "*", LF, DQ, "*", "/">>
    /\ out = <<"x">>

----------------------------------------------------------------------------
(* Properties of the driver *)

OfFile(i, e) == e.file = i

\* the operations performed on file i, in the order they happened
RECURSIVE OpsFrom(_, _, _)
OpsFrom(i, n, acc) ==
    IF n > Len(events) THEN acc
    ELSE OpsFrom(i, n + 1,
                 IF events[n].file = i THEN Append(acc, events[n].op) ELSE acc)

OpsOf(i) == OpsFrom(i, 1, <<>>)

\* number of log lines that name file i
LogLinesOf(i) ==
    Cardinality({n \in DOMAIN log :
                    log[n] = <<"Minified", SourceName[i], "->", DestName[i]>>})

\* what the destination of file i is to hold
Designated(i) ==
    IF i = 1 THEN minify_css(srcText[i]) ELSE minify_js(srcText[i])

Untouched(i) == dest[i] \in {Absent, Stale}

Failures == {"readfail", "writefail"}

\* C7: whatever subset of the five sources exists, a run without I/O failure
\* always has a next step until main() returns; then exactly the destinations of
\* the existing sources have been written, each holding the output of its
\* designated minifier, and the log holds exactly one line per existing
\* source; an absent source gets no destination, no log line and no error.
C7_MissingFileTolerance ==
    /\ pc = "done" =>
          /\ \A i \in Files :
                IF i \in present
                THEN /\ dest[i] = Designated(i)
                     /\ LogLinesOf(i) = 1
                     /\ OpsOf(i) = <<"check", "read", "write", "log">>
                ELSE /\ Untouched(i)
                     /\ LogLinesOf(i) = 0
                     /\ OpsOf(i) = <<"check">>
          /\ Len(log) = Cardinality(present)
    /\ pc = "failed" =>
          idx \in present /\ events[Len(events)].op \in Failures
    /\ pc \notin {"done", "failed"} =>
          /\ pc \in {"check", "read", "write", "print"} /\ idx \in Files
          /\ pc # "check" => idx \in present

\* a finished run in which some sources exist and some do not
C7_Witness ==
    /\ pc = "done"
    /\ present = {1, 3, 5}
    /\ dest[1] = Designated(1) /\ dest[3] = Designated(3) /\ dest[2] = Absent
    /\ Len(log) = 3

\* C8: when the read or the write of file k fails, the run stops there: the
\* destinations of the files before k stay as written, no later file is
\* read or written, and the log names neither k nor any later file.
C8_AbortOnFailure ==
    \A n \in DOMAIN events :
        events[n].op \in Failures =>
            LET k == events[n].file
            IN  /\ n = Len(events)
                /\ pc = "failed"
                /\ \A i \in Files :
                      /\ (i < k /\ i \in present) => dest[i] = Designated(i)
                      /\ i > k => (OpsOf(i) = <<>> /\ Untouched(i))
                      /\ i >= k => LogLinesOf(i) = 0

\* the write of the second file fails after the first was written, while
\* the third file exists
C8_Witness ==
    /\ pc = "failed" /\ idx = 2
    /\ {1, 3} \subseteq present
    /\ events[Len(events)].op = "writefail"
    /\ dest[1] = Designated(1) /\ Len(log) = 1

IsPrefix(a, b) == Len(a) <= Len(b) /\ SubSeq(b, 1, Len(a)) = a

\* C9: the files are taken one after the other in the fixed order and none
\* twice: the existence checks come in the order 1, 2, ..., every operation
\* on a file precedes all operations on the next, and the read, the write
\* and the log line of a file are over before the next file is looked at.
C9_SequentialFixedOrder ==
    /\ \A m, n \in DOMAIN events : m < n => events[m].file <= events[n].file
    /\ \A n \in DOMAIN events :
          events[n].op = "check" =>
              events[n].file = Cardinality({m \in 1..n : events[m].op = "check"})
    /\ \A i \in Files :
          \/ IsPrefix(OpsOf(i), <<"check", "read", "write", "log">>)
          \/ OpsOf(i) = <<"check", "readfail">>
          \/ OpsOf(i) = <<"check", "read", "writefail">>
    /\ \A i, j \in Files :
          (i < j /\ OpsOf(j) # <<>>) =>
              OpsOf(i) \in {<<"check">>, <<"check", "read", "write", "log">>}

\* all five files exist and have been processed
C9_Witness ==
    /\ pc = "done" /\ present = Files
    /\ Len(events) = 20 /\ Len(log) = 5

====
